---- MODULE Spec2Model ----
(***************************************************************************)
(* AsyncMux (src/src/index.ts): an M:N multiplexer of async generators.    *)
(*                                                                         *)
(* The model follows the JavaScript run-to-completion semantics: every     *)
(* action is one synchronous block of index.ts (a public method call, or   *)
(* the continuation of one await), and blocks interleave in any order.     *)
(*                                                                         *)
(* Items are pairs <<source, index>>: <<i, k>> is the k-th item yielded by *)
(* the producer given to the i-th in() call, <<0, n>> is the argument of   *)
(* the n-th push() call.                                                   *)
(***************************************************************************)
EXTENDS Integers, Sequences, FiniteSets, TLC

\* ---- bounds of the model ----
MaxCalls == 3   \* calls the owner makes: in(), out(), push(), stop(), stop handles
MaxItems == 2   \* items all producers together yield

Inputs  == 1..MaxCalls
Outputs == 1..MaxCalls

\* ---- values ----
StopSymbol == <<-1, 0>>          \* const StopSymbol = Symbol('STOP')
Undefined  == <<-2, 0>>          \* [].shift()

VARIABLES
  inputCount,   \* AsyncMux.inputCount
  stopFlag,     \* AsyncMux.stopFlag
  queues,       \* AsyncMux.queues: the outputs whose asyncQueue is in the Set
  ch,           \* per out() closure: [queue, controlPromise, resolve]
  gen,          \* per out(): where outputGen stands
  held,         \* per out(): the value pullItem settled with, not yet seen by outputGen
  pump,         \* per in(): where the async pump stands
  pos,          \* per in(): items the producer has handed to the pump
  nIn, nOut,    \* in() / out() calls made
  nPush,        \* push() calls made
  calls,        \* calls the owner has made
  observed,     \* history: the items each output's generator yielded
  bcast,        \* history: every data item handed to pushInternal, with the registry,
                \*          the failed pumps and the outputs already sent a stop marker
  regAt,        \* history: Len(bcast) when out() was called
  hist          \* history: which inputs / outputs something has happened to

vars == <<inputCount, stopFlag, queues, ch, gen, held, pump, pos,
          nIn, nOut, nPush, calls, observed, bcast, regAt, hist>>

\* (mutant) a new output starts with the items broadcast so far
NewChannelBackfill ==
  [queue |-> [n \in 1..Len(bcast) |-> bcast[n].item],
   controlPromise |-> FALSE, resolve |-> FALSE]

\* ---- the closure state of one out() ----
NewChannel == [queue |-> <<>>, controlPromise |-> FALSE, resolve |-> FALSE]

\* (mutant) a queue of capacity one: an item that finds it full is dropped
pushItemBounded(c, item) ==
  IF Len(c.queue) >= 1 THEN c
  ELSE [queue          |-> Append(c.queue, item),
        controlPromise |-> IF c.resolve THEN FALSE ELSE c.controlPromise,
        resolve        |-> FALSE]

\* (mutant) pushItem that resolves the waiting pull and keeps its resolver
pushItemKeepsResolve(c, item) ==
  [queue          |-> Append(c.queue, item),
   controlPromise |-> IF c.resolve THEN FALSE ELSE c.controlPromise,
   resolve        |-> c.resolve]

\* (mutant) pushItem without the resolve() of a waiting pull
pushItemSilent(c, item) ==
  [queue          |-> Append(c.queue, item),
   controlPromise |-> c.controlPromise,
   resolve        |-> c.resolve]

\* (mutant) queue.unshift(item) in place of queue.push(item)
pushItemFront(c, item) ==
  [queue          |-> <<item>> \o c.queue,
   controlPromise |-> IF c.resolve THEN FALSE ELSE c.controlPromise,
   resolve        |-> FALSE]

\* pushItem (index.ts:82-89)
pushItem(c, item) ==
  [queue          |-> Append(c.queue, item),
   controlPromise |-> IF c.resolve THEN FALSE ELSE c.controlPromise,
   resolve        |-> FALSE]

\* (mutant) the pass over this.queues skips every queue that still holds something
pushInternalIdleOnly(chs, qs, item) ==
  [o \in DOMAIN chs |->
     IF o \in qs /\ chs[o].queue = <<>> THEN pushItem(chs[o], item) ELSE chs[o]]

\* (mutant) the pass over this.queues ends after its first queue
pushInternalFirst(chs, qs, item) ==
  [o \in DOMAIN chs |->
     IF o \in qs /\ \A p \in qs : o <= p THEN pushItem(chs[o], item) ELSE chs[o]]

\* pushInternal (index.ts:143-147): one pass over this.queues
pushInternal(chs, qs, item) ==
  [o \in DOMAIN chs |-> IF o \in qs THEN pushItem(chs[o], item) ELSE chs[o]]

\* (mutant) queue.pop() in place of queue.shift()
shiftLast(q) ==
  IF Len(q) > 0 THEN [item |-> q[Len(q)], rest |-> SubSeq(q, 1, Len(q) - 1)]
                ELSE [item |-> Undefined, rest |-> q]

\* queue.shift() (index.ts:93, 103): the item taken and the queue left
shift(q) ==
  IF Len(q) > 0 THEN [item |-> Head(q), rest |-> Tail(q)]
                ELSE [item |-> Undefined, rest |-> q]

\* the items the producers of the first n in() calls have yielded in all
RECURSIVE yielded(_)
yielded(n) == IF n = 0 THEN 0 ELSE pos[n] + yielded(n - 1)

\* (mutant) outputGen loops until it takes a stop marker
loopCondAlways(o) == TRUE

\* the while condition of outputGen (index.ts:115)
loopCond(o) == inputCount > 0 \/ Len(ch[o].queue) > 0

Init ==
  /\ inputCount = 0
  /\ stopFlag = FALSE
  /\ queues = {}
  /\ gen = [o \in Outputs |-> "none"]
  /\ held = [o \in Outputs |-> <<>>]
  /\ pump = [i \in Inputs |-> "none"]
  /\ pos = [i \in Inputs |-> 0]
  /\ nIn = 0 /\ nOut = 0 /\ nPush = 0 /\ calls = 0
  /\ observed = [o \in Outputs |-> <<>>]
  /\ bcast = <<>>
  /\ ch = [o \in Outputs |-> NewChannel]
  /\ regAt = [o \in Outputs |-> 0]
  /\ hist = [stopCalled |-> FALSE,  \* the owner has called stop()
             inReturned |-> "nothing", \* what the latest in() call returned
             anyEnded   |-> FALSE,  \* some pump has left its loop or failed
             earlyIn    |-> {},     \* inputs registered while ~anyEnded
             earlyOut   |-> {},     \* outputs registered while ~anyEnded
             pulledIdle |-> {},     \* outputs pulled while inputCount = 0 and the queue was empty
             handled    |-> {},     \* outputs whose stop handle was called
             atStop     |-> {},     \* outputs registered when stop() ran
             abandoned  |-> {}]     \* outputs whose consumer called return()

\* (mutant) stop() sets the flag and signals no queue
stopFlagOnly ==
  /\ stopFlag' = TRUE
  /\ UNCHANGED ch

\* (mutant) a stop() that sends the stop markers and leaves stopFlag alone
stopMarkersOnly ==
  /\ stopFlag' = stopFlag
  /\ ch' = pushInternal(ch, queues, StopSymbol)

\* (mutant) a stop() that empties every registered queue before the stop marker
stopDropsBuffers ==
  /\ stopFlag' = TRUE
  /\ ch' = pushInternal([o \in Outputs |->
                           IF o \in queues THEN [ch[o] EXCEPT !.queue = <<>>]
                                           ELSE ch[o]],
                        queues, StopSymbol)

\* ---- AsyncMux.stop (index.ts:156-159), as a state change ----
stop ==
  /\ stopFlag' = TRUE
  /\ ch' = pushInternal(ch, queues, StopSymbol)

\* (mutant) a push that makes its pass over this.queues twice
pushTwice(item) ==
  /\ ch' = pushInternal(pushInternal(ch, queues, item), queues, item)
  /\ bcast' = Append(bcast, [item |-> item, to |-> queues,
                             failed |-> {i \in Inputs : pump[i] = "failed"},
                             closed |-> hist.atStop \cup hist.handled])

\* ---- AsyncMux.push (index.ts:149-151), as a state change ----
push(item) ==
  /\ ch' = pushInternal(ch, queues, item)
  /\ bcast' = Append(bcast, [item |-> item, to |-> queues,
                             failed |-> {i \in Inputs : pump[i] = "failed"},
                             closed |-> hist.atStop \cup hist.handled])

\* (mutant) the pump only takes itself off the count when its loop ends
afterLoopCounts ==
  /\ inputCount' = inputCount - 1
  /\ hist' = [hist EXCEPT !.anyEnded = TRUE]
  /\ UNCHANGED <<stopFlag, ch>>

\* (mutant) the pump calls stop() whenever its loop ends
afterLoopStops ==
  /\ inputCount' = inputCount - 1
  /\ stop /\ hist' = [hist EXCEPT !.anyEnded = TRUE, !.atStop = @ \cup queues]

\* ---- the statements after the pump's loop (index.ts:65-68) ----
afterLoop ==
  /\ inputCount' = inputCount - 1
  /\ IF inputCount - 1 = 0
       THEN stop /\ hist' = [hist EXCEPT !.anyEnded = TRUE, !.atStop = @ \cup queues]
       ELSE UNCHANGED <<stopFlag, ch>> /\ hist' = [hist EXCEPT !.anyEnded = TRUE]

\* (mutant) an in() that puts the mux back in service
InRestarts ==
  /\ calls < MaxCalls
  /\ calls' = calls + 1
  /\ nIn' = nIn + 1
  /\ inputCount' = inputCount + 1
  /\ stopFlag' = FALSE
  /\ pump' = [pump EXCEPT ![nIn + 1] = "running"]
  /\ hist' = [hist EXCEPT
                !.inReturned = "undefined",
                !.earlyIn = IF hist.anyEnded THEN @ ELSE @ \cup {nIn + 1}]
  /\ UNCHANGED <<queues, ch, gen, held, pos, nOut, nPush,
                 observed, bcast, regAt>>

\* ---- in(input) (index.ts:54-70): count the input and start its pump ----
In ==
  /\ calls < MaxCalls
  /\ calls' = calls + 1
  /\ nIn' = nIn + 1
  /\ inputCount' = inputCount + 1
  /\ pump' = [pump EXCEPT ![nIn + 1] = "running"]
  /\ hist' = [hist EXCEPT   \* in(): void has no return statement (index.ts:54-70)
                !.inReturned = "undefined",
                !.earlyIn = IF hist.anyEnded THEN @ ELSE @ \cup {nIn + 1}]
  /\ UNCHANGED <<stopFlag, queues, ch, gen, held, pos, nOut, nPush,
                 observed, bcast, regAt>>

\* (mutant) a pump that forwards without looking at stopFlag
PumpItemForwards(i) ==
  /\ pump[i] = "running"
  /\ yielded(nIn) < MaxItems
  /\ pos' = [pos EXCEPT ![i] = @ + 1]
  /\ push(<<i, pos[i] + 1>>)
  /\ UNCHANGED <<inputCount, stopFlag, queues, gen, held, pump, nIn, nOut,
                 nPush, calls, observed, regAt, hist>>

\* ---- the producer yields: the pump receives its next item (index.ts:59-63) ----
PumpItem(i) ==
  /\ pump[i] = "running"
  /\ yielded(nIn) < MaxItems
  /\ pos' = [pos EXCEPT ![i] = @ + 1]
  /\ IF stopFlag
       THEN /\ pump' = [pump EXCEPT ![i] = "returning"]   \* break: await input.return()
            /\ UNCHANGED <<ch, bcast>>
       ELSE /\ push(<<i, pos[i] + 1>>)
            /\ UNCHANGED pump
  /\ UNCHANGED <<inputCount, stopFlag, queues, gen, held, nIn, nOut,
                 nPush, calls, observed, regAt, hist>>

\* ---- the producer completes: the loop ends (index.ts:59, 65-68) ----
PumpDone(i) ==
  /\ pump[i] = "running"
  /\ pump' = [pump EXCEPT ![i] = "ended"]
  /\ afterLoop
  /\ UNCHANGED <<queues, gen, held, pos, nIn, nOut, nPush, calls, observed, bcast, regAt>>

\* (mutant) the pump returns from inside its loop at a stop: lines 65-68 are skipped
PumpReturnedUncounted(i) ==
  /\ pump[i] = "returning"
  /\ pump' = [pump EXCEPT ![i] = "ended"]
  /\ hist' = [hist EXCEPT !.anyEnded = TRUE]
  /\ UNCHANGED <<inputCount, stopFlag, queues, ch, gen, held, pos, nIn, nOut,
                 nPush, calls, observed, bcast, regAt>>

\* ---- input.return() settles after a break (index.ts:61, 65-68) ----
PumpReturned(i) ==
  /\ pump[i] = "returning"
  /\ pump' = [pump EXCEPT ![i] = "ended"]
  /\ afterLoop
  /\ UNCHANGED <<queues, gen, held, pos, nIn, nOut, nPush, calls, observed, bcast, regAt>>

\* (mutant) a failing producer's pump takes itself off the count, as from a finally
PumpFailCounts(i) ==
  /\ pump[i] = "running"
  /\ pump' = [pump EXCEPT ![i] = "failed"]
  /\ inputCount' = inputCount - 1
  /\ hist' = [hist EXCEPT !.anyEnded = TRUE]
  /\ UNCHANGED <<stopFlag, queues, ch, gen, held, pos, nIn,
                 nOut, nPush, calls, observed, bcast, regAt>>

\* (mutant) a failing producer takes the mux down: the pump calls stop()
PumpFailStops(i) ==
  /\ pump[i] = "running"
  /\ pump' = [pump EXCEPT ![i] = "failed"]
  /\ stopFlag' = TRUE
  /\ ch' = pushInternal(ch, queues, StopSymbol)
  /\ hist' = [hist EXCEPT !.anyEnded = TRUE, !.atStop = @ \cup queues]
  /\ UNCHANGED <<inputCount, queues, gen, held, pos, nIn,
                 nOut, nPush, calls, observed, bcast, regAt>>

\* ---- the producer throws: the async function rejects at line 59 and ----
\* ---- lines 65-68 never run (no try/catch in index.ts:58-69)         ----
PumpFail(i) ==
  /\ pump[i] = "running"
  /\ pump' = [pump EXCEPT ![i] = "failed"]
  /\ hist' = [hist EXCEPT !.anyEnded = TRUE]
  /\ UNCHANGED <<inputCount, stopFlag, queues, ch, gen, held, pos, nIn,
                 nOut, nPush, calls, observed, bcast, regAt>>

\* ---- out() (index.ts:77-136): a fresh closure, registered in this.queues ----
Out ==
  /\ calls < MaxCalls
  /\ calls' = calls + 1
  /\ nOut' = nOut + 1
  /\ ch' = [ch EXCEPT ![nOut + 1] = NewChannel]
  /\ queues' = queues \cup {nOut + 1}
  /\ gen' = [gen EXCEPT ![nOut + 1] = "start"]
  /\ regAt' = [regAt EXCEPT ![nOut + 1] = Len(bcast)]
  /\ hist' = IF hist.anyEnded THEN hist
             ELSE [hist EXCEPT !.earlyOut = @ \cup {nOut + 1}]
  /\ UNCHANGED <<inputCount, stopFlag, held, pump, pos, nIn, nPush,
                 observed, bcast>>

\* ---- the consumer calls generator.next(): outputGen runs from its start or ----
\* ---- from its yield to the await of pullItem (index.ts:115-116, 91-102)    ----
Next_(o) ==
  /\ gen[o] \in {"start", "yield"}
  /\ IF ~loopCond(o)
       THEN \* loop not entered: this.queues.delete(asyncQueue) (index.ts:124)
            /\ gen' = [gen EXCEPT ![o] = "done"]
            /\ queues' = queues \ {o}
            /\ UNCHANGED <<ch, held>>
       ELSE IF Len(ch[o].queue) > 0
       THEN \* pullItem returns queue.shift() (index.ts:92-94)
            /\ held' = [held EXCEPT ![o] = <<shift(ch[o].queue).item>>]
            /\ ch' = [ch EXCEPT ![o].queue = shift(@).rest]
            /\ gen' = [gen EXCEPT ![o] = "awaitPull"]
            /\ UNCHANGED queues
       ELSE \* pullItem awaits controlPromise (index.ts:96-102)
            /\ ch' = [ch EXCEPT ![o] = IF @.controlPromise THEN @
                                       ELSE [@ EXCEPT !.controlPromise = TRUE,
                                                      !.resolve = TRUE]]
            /\ gen' = [gen EXCEPT ![o] = "awaitPromise"]
            /\ UNCHANGED <<queues, held>>
  /\ hist' = IF inputCount = 0 /\ Len(ch[o].queue) = 0
             THEN [hist EXCEPT !.pulledIdle = @ \cup {o}] ELSE hist
  /\ UNCHANGED <<inputCount, stopFlag, pump, pos, nIn, nOut, nPush,
                 calls, observed, bcast, regAt>>

\* (mutant) pullItem goes on without awaiting controlPromise
WakeUnresolved(o) ==
  /\ gen[o] = "awaitPromise"
  /\ held' = [held EXCEPT ![o] = <<shift(ch[o].queue).item>>]
  /\ ch' = [ch EXCEPT ![o].queue = shift(@).rest]
  /\ gen' = [gen EXCEPT ![o] = "awaitPull"]
  /\ UNCHANGED <<inputCount, stopFlag, queues, pump, pos, nIn, nOut,
                 nPush, calls, observed, bcast, regAt, hist>>

\* ---- pullItem resumes after controlPromise was resolved (index.ts:102-103) ----
Wake(o) ==
  /\ gen[o] = "awaitPromise"
  /\ ~ch[o].controlPromise
  /\ held' = [held EXCEPT ![o] = <<shift(ch[o].queue).item>>]
  /\ ch' = [ch EXCEPT ![o].queue = shift(@).rest]
  /\ gen' = [gen EXCEPT ![o] = "awaitPull"]
  /\ UNCHANGED <<inputCount, stopFlag, queues, pump, pos, nIn, nOut,
                 nPush, calls, observed, bcast, regAt, hist>>

\* (mutant) outputGen yields whatever it pulled, the stop marker too
DeliverAll(o) ==
  /\ gen[o] = "awaitPull"
  /\ held' = [held EXCEPT ![o] = <<>>]
  /\ gen' = [gen EXCEPT ![o] = "yield"]
  /\ observed' = [observed EXCEPT ![o] = Append(@, held[o][1])]
  /\ UNCHANGED <<inputCount, stopFlag, queues, ch, pump, pos, nIn, nOut, nPush,
                 calls, bcast, regAt, hist>>

\* ---- outputGen resumes with the pulled item (index.ts:116-124) ----
Deliver(o) ==
  /\ gen[o] = "awaitPull"
  /\ held' = [held EXCEPT ![o] = <<>>]
  /\ IF held[o][1] = StopSymbol
       THEN /\ gen' = [gen EXCEPT ![o] = "done"]      \* break, then queues.delete
            /\ queues' = queues \ {o}
            /\ UNCHANGED observed
       ELSE /\ gen' = [gen EXCEPT ![o] = "yield"]     \* yield item
            /\ observed' = [observed EXCEPT ![o] = Append(@, held[o][1])]
            /\ UNCHANGED queues
  /\ UNCHANGED <<inputCount, stopFlag, ch, pump, pos, nIn, nOut, nPush,
                 calls, bcast, regAt, hist>>

\* (mutant) return() completes the generator also while it is suspended in pullItem
ReturnAnywhere(o) ==
  /\ gen[o] \in {"start", "yield", "awaitPromise"}
  /\ gen' = [gen EXCEPT ![o] = "done"]
  /\ hist' = [hist EXCEPT !.abandoned = @ \cup {o}]
  /\ UNCHANGED <<inputCount, stopFlag, queues, ch, held, pump, pos, nIn,
                 nOut, nPush, calls, observed, bcast, regAt>>

\* ---- the consumer leaves its loop early: generator.return() completes the ----
\* ---- generator where it is suspended; line 124 is not in a finally block  ----
Return(o) ==
  /\ gen[o] \in {"start", "yield"}
  /\ gen' = [gen EXCEPT ![o] = "done"]
  /\ hist' = [hist EXCEPT !.abandoned = @ \cup {o}]
  /\ UNCHANGED <<inputCount, stopFlag, queues, ch, held, pump, pos, nIn,
                 nOut, nPush, calls, observed, bcast, regAt>>

\* ---- mux.push(item) (index.ts:149-151) ----
Push ==
  /\ calls < MaxCalls
  /\ calls' = calls + 1
  /\ nPush' = nPush + 1
  /\ push(<<0, nPush + 1>>)
  /\ UNCHANGED <<inputCount, stopFlag, queues, gen, held, pump, pos,
                 nIn, nOut, observed, regAt, hist>>

\* ---- mux.stop() (index.ts:156-159) ----
Stop ==
  /\ calls < MaxCalls
  /\ calls' = calls + 1
  /\ stop
  /\ hist' = [hist EXCEPT !.atStop = @ \cup queues, !.stopCalled = TRUE]
  /\ UNCHANGED <<inputCount, queues, gen, held, pump, pos, nIn, nOut,
                 nPush, observed, bcast, regAt>>

\* (mutant) a stop handle that sends the stop marker to every registered queue
OutStopAll(o) ==
  /\ calls < MaxCalls
  /\ gen[o] # "none"
  /\ calls' = calls + 1
  /\ ch' = pushInternal(ch, queues \cup {o}, StopSymbol)
  /\ hist' = [hist EXCEPT !.handled = @ \cup {o}]
  /\ UNCHANGED <<inputCount, stopFlag, queues, gen, held, pump, pos,
                 nIn, nOut, nPush, observed, bcast, regAt>>

\* (mutant) a stop handle that takes the queue off this.queues and sends nothing
OutStopUnregisters(o) ==
  /\ calls < MaxCalls
  /\ gen[o] # "none"
  /\ calls' = calls + 1
  /\ queues' = queues \ {o}
  /\ hist' = [hist EXCEPT !.handled = @ \cup {o}]
  /\ UNCHANGED <<inputCount, stopFlag, ch, gen, held, pump, pos,
                 nIn, nOut, nPush, observed, bcast, regAt>>

\* ---- the stop handle returned by out() (index.ts:128-130) ----
OutStop(o) ==
  /\ calls < MaxCalls
  /\ gen[o] # "none"
  /\ calls' = calls + 1
  /\ ch' = [ch EXCEPT ![o] = pushItem(@, StopSymbol)]
  /\ hist' = [hist EXCEPT !.handled = @ \cup {o}]
  /\ UNCHANGED <<inputCount, stopFlag, queues, gen, held, pump, pos,
                 nIn, nOut, nPush, observed, bcast, regAt>>

Next ==
  \/ In
  \/ \E i \in Inputs : PumpItem(i)
  \/ \E i \in Inputs : PumpDone(i)
  \/ \E i \in Inputs : PumpReturned(i)
  \/ \E i \in Inputs : PumpFail(i)
  \/ Out
  \/ \E o \in Outputs : Next_(o)
  \/ \E o \in Outputs : Wake(o)
  \/ \E o \in Outputs : Deliver(o)
  \/ \E o \in Outputs : Return(o)
  \/ Push
  \/ Stop
  \/ \E o \in Outputs : OutStop(o)

Spec == Init /\ [][Next]_vars

\* A consumer that keeps pulling: each continuation of an await runs once it is
\* ready (the event loop runs every ready job), and for await calls next() again.
FairSpec ==
  /\ Spec
  /\ \A o \in Outputs :
       WF_vars(Next_(o)) /\ WF_vars(Wake(o)) /\ WF_vars(Deliver(o))

\* ======================= properties =======================

\* the items of source i in a sequence of items, in order
FromSource(i, s) == SelectSeq(s, LAMBDA x : x[1] = i)

\* the items the producer of input i has handed to its pump, in order
Produced(i) == [k \in 1..pos[i] |-> <<i, k>>]

\* where item x stands in the broadcast history (0 when it was never broadcast)
BcastIndex(x) ==
  IF \E n \in 1..Len(bcast) : bcast[n].item = x
    THEN CHOOSE n \in 1..Len(bcast) : bcast[n].item = x
    ELSE 0

\* everything output o has taken in so far: yielded, pulled, or still queued
Received(o) == observed[o] \o held[o] \o ch[o].queue

PumpOver(i) == pump[i] \in {"ended", "failed"}

\* output o has nothing left to yield
Settled(o) ==
  \/ gen[o] = "done"
  \/ gen[o] # "none" /\ ch[o].queue = <<>> /\ held[o] = <<>>

\* output o was registered before input i forwarded anything
Before(o, i) == \A n \in 1..regAt[o] : bcast[n].item[1] # i

\* nobody ended output o from outside: no stop(), no stop handle, no return()
LeftAlone(o) ==
  /\ ~hist.stopCalled
  /\ o \notin hist.handled
  /\ o \notin hist.abandoned

\* C1 (as claimed): of inputs and outputs registered before any input ended:
\* once the input is over and the output has nothing left to yield, the output
\* has observed exactly the items the input produced, in order. The claim is
\* read in its own favour: only where the output was there before the input
\* forwarded (no backfill is claimed) and nobody stopped the mux or the output.
C1_Original ==
  \A i \in hist.earlyIn, o \in hist.earlyOut :
    (Before(o, i) /\ LeftAlone(o) /\ PumpOver(i) /\ Settled(o))
      => FromSource(i, observed[o]) = Produced(i)

\* C1 (amended): the same, for outputs whose consumer never pulled while no input
\* was live and the buffer was empty (such a pull ends the output, index.ts:115).
C1_BroadcastCompleteness ==
  \A i \in hist.earlyIn, o \in hist.earlyOut :
    (Before(o, i) /\ LeftAlone(o) /\ o \notin hist.pulledIdle
       /\ PumpOver(i) /\ Settled(o))
      => FromSource(i, observed[o]) = Produced(i)

\* C1 witness: an input that produced two items is over, and two outputs that
\* were left alone have completed after observing both.
C1_Witness ==
  \E i \in hist.earlyIn : \E o1, o2 \in hist.earlyOut :
    /\ o1 # o2 /\ pump[i] = "ended" /\ pos[i] = 2
    /\ \A o \in {o1, o2} :
         /\ LeftAlone(o) /\ o \notin hist.pulledIdle /\ gen[o] = "done"
         /\ observed[o] = Produced(i)

\* C2: per-input order: in every output's observed sequence the items of one
\* input appear in the order the producer yielded them.
C2_PerInputOrder ==
  \A o \in Outputs : \A a, b \in 1..Len(observed[o]) :
    (a < b /\ observed[o][a][1] = observed[o][b][1] /\ observed[o][a][1] >= 1)
      => observed[o][a][2] < observed[o][b][2]

\* C2 witness: an output observed a, something from elsewhere, then b.
C2_Witness ==
  \E o \in Outputs : \E i \in Inputs :
    /\ Len(observed[o]) = 3
    /\ observed[o][1] = <<i, 1>>
    /\ observed[o][2][1] # i
    /\ observed[o][3] = <<i, 2>>

\* C3: two outputs that both observe x and y observe them in the same order.
C3_SameRelativeOrder ==
  \A o1, o2 \in Outputs :
    \A a, b \in 1..Len(observed[o1]) : \A c, d \in 1..Len(observed[o2]) :
      (a < b /\ observed[o1][a] = observed[o2][c] /\ observed[o1][b] = observed[o2][d])
        => c < d

\* C3 witness: two outputs have both observed the same two items.
C3_Witness ==
  \E o1, o2 \in Outputs :
    /\ o1 # o2
    /\ Len(observed[o1]) = 2
    /\ observed[o1] = observed[o2]

\* C4: an output observes only items broadcast after its out() call.
C4_NoBackfill ==
  \A o \in Outputs : \A k \in 1..Len(observed[o]) :
    BcastIndex(observed[o][k]) > regAt[o]

\* C4 witness: an output created after an item was broadcast has observed a later item.
C4_Witness ==
  \E o \in Outputs : regAt[o] > 0 /\ Len(observed[o]) > 0

\* how far the first stop marker is from the consumer of output o: its place in
\* what the consumer has pulled or has queued (0 when there is none)
StopDistance(o) ==
  LET line == held[o] \o ch[o].queue
  IN  IF \E n \in 1..Len(line) : line[n] = StopSymbol
        THEN CHOOSE n \in 1..Len(line) :
               line[n] = StopSymbol /\ \A m \in 1..(n - 1) : line[m] # StopSymbol
        ELSE 0

\* the consumer steps output o still needs to reach its stop marker
Rank(o) == 2 * StopDistance(o) + (IF gen[o] = "awaitPull" THEN 0 ELSE 1)

ConsumerStep(o) == Next_(o) \/ Wake(o) \/ Deliver(o)

\* C5: global stop terminates every output. For every output registered when
\* stop() ran and not yet done: a stop marker is on its way to the consumer and a
\* consumer step is enabled; no step moves the marker away, and every consumer
\* step completes the output or brings the marker nearer (so a consumer that
\* keeps pulling reaches done). A stop() that finds a consumer suspended on its
\* empty buffer resolves the promise it awaits, with nothing but the marker queued.
C5_StopTerminatesOutputs ==
  /\ [](\A o \in hist.atStop : gen[o] # "done" =>
          /\ StopDistance(o) > 0
          /\ ENABLED ConsumerStep(o))
  /\ [][\A o \in hist.atStop : gen[o] # "done" =>
          \/ gen'[o] = "done"
          \/ /\ Rank(o)' <= Rank(o)
             /\ ConsumerStep(o) => Rank(o)' < Rank(o)]_vars
  /\ [][Stop => \A o \in queues :
          (gen[o] = "awaitPromise" /\ ch[o].resolve)
            => /\ ~ch'[o].resolve /\ ~ch'[o].controlPromise
               /\ gen'[o] = "awaitPromise"
               /\ ch'[o].queue = <<StopSymbol>>]_vars

\* C5, as a temporal formula of FairSpec: every output registered when stop()
\* ran eventually completes.
C5_Eventually == \A o \in Outputs : (o \in hist.atStop) ~> (gen[o] = "done")

\* C5 witness: stop() has woken a consumer that was suspended on an empty buffer;
\* nothing but the stop marker is in its queue.
C5_Witness ==
  \E o \in hist.atStop :
    /\ hist.stopCalled
    /\ gen[o] = "awaitPromise" /\ ~ch[o].controlPromise
    /\ ch[o].queue = <<StopSymbol>>

\* C6 (as claimed): a stop() call on a stopped mux changes no mux or channel state.
C6_StopIdempotent ==
  [][(Stop /\ stopFlag) => UNCHANGED <<inputCount, stopFlag, queues, ch>>]_vars

\* C7 (as claimed): in() after stop() registers nothing and starts no pump.
C7_InAfterStopRejected ==
  [][(hist.stopCalled /\ stopFlag /\ nIn' # nIn)
        => (inputCount' = inputCount /\ pump' = pump)]_vars

\* C8 (as claimed): out() after stop() adds no channel to the registry.
C8_OutAfterStopRejected ==
  [][(hist.stopCalled /\ stopFlag /\ nOut' # nOut) => queues' = queues]_vars

\* C9 (as claimed): push() after stop() appends to no channel's buffer.
C9_PushAfterStopIgnored ==
  [][(hist.stopCalled /\ stopFlag /\ nPush' # nPush) => ch' = ch]_vars

\* x occurs in the sequence s
Occurs(x, s) == \E n \in 1..Len(s) : s[n] = x

PumpEnds(i) == PumpDone(i) \/ PumpReturned(i)

\* C11 (as claimed): a pump that ends (completed, failed or after a break) does
\* nothing more to the mux: stopFlag stays as it was and no channel is touched.
C11_NoAutomaticStop ==
  [][\A i \in Inputs : (PumpEnds(i) \/ PumpFail(i))
        => UNCHANGED <<stopFlag, queues, ch>>]_vars

\* C11 (amended): a pump whose producer fails, or whose loop ends while another
\* input is still counted live, leaves stopFlag and every channel as they were;
\* a pump whose loop ends as the last live input sets stopFlag and sends a stop
\* marker to every registered output; and while stopFlag is false every pump,
\* also one registered after another has ended, appends its item to every
\* registered output.
C11_StopOnlyOnLastInput ==
  /\ [][\A i \in Inputs : (PumpFail(i) \/ (PumpEnds(i) /\ inputCount > 1))
          => UNCHANGED <<stopFlag, queues, ch, gen, held>>]_vars
  /\ [][\A i \in Inputs : (PumpEnds(i) /\ inputCount = 1)
          => /\ stopFlag'
             /\ \A o \in queues : ch'[o].queue = Append(ch[o].queue, StopSymbol)]_vars
  /\ [][\A j \in Inputs : (hist.anyEnded /\ ~stopFlag /\ PumpItem(j))
          => \A o \in queues :
               ch'[o].queue = Append(ch[o].queue, <<j, pos[j] + 1>>)]_vars

\* C11 witness: a pump is over, the mux is not stopped, and an input registered
\* after that has forwarded an item that an output has taken in.
C11_Witness ==
  \E i, j \in Inputs : \E o \in Outputs :
    /\ PumpOver(i) /\ ~stopFlag
    /\ pump[j] # "none" /\ j \notin hist.earlyIn
    /\ Occurs(<<j, 1>>, Received(o))

\* the items broadcast to output o before any stop marker was sent to it, in order
SentOpen(o) ==
  LET sel == SelectSeq(bcast, LAMBDA e : o \in e.to /\ o \notin e.closed)
  IN  [n \in 1..Len(sel) |-> sel[n].item]

\* what output o has pulled or has queued ahead of its first stop marker
DataAhead(o) == SubSeq(held[o] \o ch[o].queue, 1, StopDistance(o) - 1)

\* every registered input is over, its loop ended (none failed, none running)
AllInputsDone ==
  /\ nIn > 0
  /\ \A i \in Inputs : pump[i] \in {"none", "ended"}

\* C12: outputs finish when the inputs finish, with no stop() and no stop handle.
\* When the last registered input's producer completes, the pump sends the stop
\* marker to every registered output. Such an output, left alone by its owner,
\* has ahead of that marker exactly the items broadcast to it and not yet
\* yielded, a consumer step is enabled, every consumer step brings the marker
\* nearer or completes the output, and once it is done it has observed exactly
\* the items broadcast to it.
C12_OutputsFinishWithInputs ==
  /\ [][\A i \in Inputs :
          (PumpDone(i) /\ \A j \in Inputs \ {i} : pump[j] \in {"none", "ended"})
            => /\ AllInputsDone'
               /\ \A o \in queues : ch'[o].queue = Append(ch[o].queue, StopSymbol)
               /\ \A o \in queues : ~ch'[o].resolve /\ ~ch'[o].controlPromise]_vars
  /\ [](\A o \in hist.atStop : LeftAlone(o) =>
          IF gen[o] = "done"
            THEN observed[o] = SentOpen(o)
            ELSE /\ StopDistance(o) > 0
                 /\ observed[o] \o DataAhead(o) = SentOpen(o)
                 /\ ENABLED ConsumerStep(o))
  /\ [][\A o \in hist.atStop : (LeftAlone(o) /\ LeftAlone(o)' /\ gen[o] # "done") =>
          \/ gen'[o] = "done"
          \/ /\ StopDistance(o)' <= StopDistance(o)
             /\ ConsumerStep(o) => Rank(o)' < Rank(o)]_vars

\* C12 witness: every input has completed, nobody called stop() or a stop handle,
\* and an output is done having observed two items.
C12_Witness ==
  /\ AllInputsDone
  /\ \E o \in hist.atStop :
       LeftAlone(o) /\ gen[o] = "done" /\ Len(observed[o]) = 2

\* C13: exiting outputs. The first pull of an output, made while no input has
\* been registered and nothing is in its queue, completes the output: the
\* generator is done, it has yielded nothing, and it is off the registry; no
\* stop() and no stop handle was needed for it.
C13_ExitingOutputs ==
  /\ [][\A o \in Outputs :
          (Next_(o) /\ gen[o] = "start" /\ nIn = 0 /\ ch[o].queue = <<>>)
            => /\ gen'[o] = "done"
               /\ observed'[o] = <<>>
               /\ o \notin queues'
               /\ UNCHANGED <<stopFlag, ch, hist.stopCalled, hist.handled>>]_vars
  /\ [](\A o \in Outputs :
          (nIn = 0 /\ nPush = 0 /\ LeftAlone(o) /\ gen[o] \notin {"none", "start"})
            => gen[o] = "done" /\ observed[o] = <<>>)

\* C13 witness: with no input ever registered, nothing pushed and no stop of
\* any kind, an output is done on its first pull having yielded nothing.
C13_Witness ==
  \E o \in Outputs :
    /\ nIn = 0 /\ nPush = 0 /\ LeftAlone(o)
    /\ o \in hist.pulledIdle
    /\ gen[o] = "done" /\ observed[o] = <<>> /\ o \notin queues

\* C14 (as claimed): an output's consumer sequence terminates only when its
\* channel was closed: an output that is done, and was not abandoned by its own
\* consumer, was sent a stop marker by stop() or by its stop handle.
C14_TerminatesOnlyWhenClosed ==
  \A o \in Outputs :
    (gen[o] = "done" /\ o \notin hist.abandoned)
      => o \in hist.atStop \cup hist.handled

\* C14 (amended): an output that is done, and was not abandoned by its own
\* consumer, was sent a stop marker or pulled while no input was live and its
\* queue was empty. A pull on an empty queue completes the output when no input
\* is live, and suspends it, still registered, when one is; an enqueue on a
\* channel with a suspended pull resolves it, and the resumed pull takes the
\* item at the head of the queue, which is there.
C14_TerminatesWhenClosedOrIdle ==
  /\ [](\A o \in Outputs :
          (gen[o] = "done" /\ o \notin hist.abandoned)
            => o \in hist.atStop \cup hist.handled \cup hist.pulledIdle)
  /\ [][\A o \in Outputs : (Next_(o) /\ ch[o].queue = <<>>) =>
          IF inputCount = 0
            THEN gen'[o] = "done" /\ o \notin queues'
            ELSE /\ gen'[o] = "awaitPromise"
                 /\ ch'[o].controlPromise /\ ch'[o].resolve
                 /\ queues' = queues]_vars
  /\ [][\A o \in Outputs :
          (ch[o].resolve /\ Len(ch'[o].queue) > Len(ch[o].queue))
            => ~ch'[o].resolve /\ ~ch'[o].controlPromise]_vars
  /\ [](\A o \in Outputs :
          (gen[o] = "awaitPromise" /\ ~ch[o].controlPromise)
            => Len(ch[o].queue) > 0)
  /\ [][\A o \in Outputs : Wake(o) =>
          /\ held'[o] = <<Head(ch[o].queue)>>
          /\ gen'[o] = "awaitPull"]_vars

\* C14 witness: a consumer that pulled on an empty queue while an input was live
\* has been resolved by the enqueue of an item and is about to take it.
C14_Witness ==
  \E o \in Outputs :
    /\ gen[o] = "awaitPromise" /\ ~ch[o].controlPromise
    /\ o \notin hist.pulledIdle
    /\ Len(ch[o].queue) > 0 /\ Head(ch[o].queue) # StopSymbol

\* C15 (as claimed): in() returns a cancellation function (which, invoked, makes
\* the pump forward nothing more): what the latest in() call returned is a function.
C15_InReturnsCancel ==
  nIn > 0 => hist.inReturned = "function"

\* C16: per-output stop terminates that output. For every output whose stop
\* handle was called and that is not yet done, whatever the inputs are doing: a
\* stop marker is on its way to the consumer and a consumer step is enabled; no
\* step puts anything ahead of the marker, and every consumer step completes the
\* output or brings the marker nearer, so the pull past the items buffered at
\* the call ends the sequence. A handle called while the consumer is suspended
\* on its empty queue resolves the promise it awaits, the marker alone queued,
\* and the resumed consumer completes without yielding.
C16_OutStopTerminatesOutput ==
  /\ [](\A o \in hist.handled : gen[o] # "done" =>
          /\ StopDistance(o) > 0
          /\ ENABLED ConsumerStep(o))
  /\ [][\A o \in hist.handled : gen[o] # "done" =>
          \/ gen'[o] = "done"
          \/ /\ Rank(o)' <= Rank(o)
             /\ ConsumerStep(o) => Rank(o)' < Rank(o)]_vars
  /\ [][\A o \in Outputs : OutStop(o) =>
          /\ StopDistance(o)' > 0
          /\ StopDistance(o) = 0 => StopDistance(o)' = Len(held[o] \o ch[o].queue) + 1
          /\ (gen[o] = "awaitPromise" /\ ch[o].resolve)
               => /\ ~ch'[o].resolve /\ ~ch'[o].controlPromise
                  /\ ch'[o].queue = <<StopSymbol>>]_vars
  /\ [][\A o \in Outputs :
          (Deliver(o) /\ held[o] = <<StopSymbol>>)
            => gen'[o] = "done" /\ observed'[o] = observed[o]]_vars

\* C16 witness: an output whose stop handle was called is done, having yielded
\* an item first, while an input is still running and the mux is not stopped.
C16_Witness ==
  \E o \in hist.handled : \E i \in Inputs :
    /\ gen[o] = "done" /\ o \notin hist.abandoned
    /\ Len(observed[o]) > 0
    /\ pump[i] = "running" /\ ~stopFlag

C18_CleanupOnEveryExit ==
  \A o \in Outputs : gen[o] = "done" => o \notin queues

\* C19: no backpressure deadlock. A running pump whose producer has an item can
\* always take its step, and push() can always be called, whatever the queues
\* hold; the step appends the item to every registered queue, however long, and
\* moves the pump on; and a consumer that is not waiting for an enqueue on its
\* own queue can always take its step, whatever the other queues hold.
C19_NoBackpressureDeadlock ==
  /\ [](\A i \in Inputs :
          (pump[i] = "running" /\ yielded(nIn) < MaxItems) => ENABLED PumpItem(i))
  /\ [](calls < MaxCalls => ENABLED Push)
  /\ [][\A i \in Inputs : (PumpItem(i) /\ ~stopFlag) =>
          /\ pos'[i] = pos[i] + 1 /\ pump'[i] = "running"
          /\ \A o \in queues :
               ch'[o].queue = Append(ch[o].queue, <<i, pos[i] + 1>>)]_vars
  /\ [][Push => \A o \in queues :
          ch'[o].queue = Append(ch[o].queue, <<0, nPush + 1>>)]_vars
  /\ [](\A o \in Outputs :
          (\/ gen[o] \in {"start", "yield", "awaitPull"}
           \/ gen[o] = "awaitPromise" /\ Len(ch[o].queue) > 0)
            => ENABLED ConsumerStep(o))

\* C19 witness: an output that was never pulled holds two items in its queue,
\* and another output has observed both of them.
C19_Witness ==
  \E o, p \in queues :
    /\ o # p /\ gen[o] = "start"
    /\ Len(ch[o].queue) = 2 /\ \A n \in 1..2 : ch[o].queue[n] # StopSymbol
    /\ observed[p] = ch[o].queue

\* C20: items buffered before a stop are still delivered. For every output that
\* was sent a stop marker (by stop() or by its own stop handle) and whose
\* consumer did not abandon it: while it is not done the marker is on its way
\* and the items already observed, followed by those ahead of the marker, are
\* exactly the items broadcast to the output before the marker, in broadcast
\* order; once it is done it has observed exactly those items, in that order.
C20_BufferedBeforeStopDelivered ==
  \A o \in hist.atStop \cup hist.handled :
    o \notin hist.abandoned =>
      IF gen[o] = "done"
        THEN observed[o] = SentOpen(o)
        ELSE /\ StopDistance(o) > 0
             /\ observed[o] \o DataAhead(o) = SentOpen(o)

\* C20 witness: out(), push(x), stop(): the output is done having observed x.
C20_Witness ==
  \E o \in hist.atStop :
    /\ hist.stopCalled /\ nIn = 0 /\ nPush = 1
    /\ gen[o] = "done" /\ o \notin hist.abandoned
    /\ observed[o] = << <<0, 1>> >>

\* the items handed to push() by the owner while output o was registered, in call order
PushedTo(o) ==
  LET sel == SelectSeq(bcast, LAMBDA e : e.item[1] = 0 /\ o \in e.to)
  IN  [n \in 1..Len(sel) |-> sel[n].item]

\* C21: direct injection. Each push(item) appends item exactly once to the queue
\* of every output registered at the call and to no other, in one step, and each
\* output takes the pushed items in call order: what an output has yielded,
\* pulled or queued holds, of the owner's pushes, exactly those made while it
\* was registered, once each, in call order.
C21_PushToEveryOutputInOrder ==
  \A o \in Outputs : FromSource(0, Received(o)) = PushedTo(o)

\* C21 witness: one push made with two outputs registered and the mux not
\* stopped is in what each of them has taken in, and one of them has yielded it.
C21_Witness ==
  \E o, p \in Outputs :
    /\ o # p /\ ~stopFlag /\ nPush = 1
    /\ PushedTo(o) = << <<0, 1>> >> /\ PushedTo(p) = << <<0, 1>> >>
    /\ observed[o] = << <<0, 1>> >> /\ Occurs(<<0, 1>>, Received(p))

\* C22 (as claimed): after stop() no output that was registered when it ran is
\* in the registry any more, whether or not its consumer has pulled since.
C22_RegistryEmptyAfterStop ==
  hist.stopCalled => queues \cap hist.atStop = {}

\* C23 (as claimed): an output whose stop handle has been called is not in the
\* registry, whether or not its consumer has pulled since.
C23_OutStopUnregisters ==
  \A o \in hist.handled : o \notin queues

\* C24 (as claimed): a second or later call of an output's stop handle changes
\* no state: nothing is enqueued and no waiter is resolved.
C24_DoubleOutStopNoOp ==
  [][\A o \in hist.handled :
       OutStop(o) => UNCHANGED <<inputCount, stopFlag, queues, ch>>]_vars

\* the inputs whose pump is still in its loop or leaving it
LiveInputs == {i \in Inputs : pump[i] \in {"running", "returning"}}

\* C25 (as claimed): the count of live inputs includes no input whose producer
\* has failed, as it includes none that completed: it is the number of inputs
\* whose pump has not ended.
C25_FailedInputRemoved ==
  inputCount = Cardinality(LiveInputs)

\* a step of the pump of input i
PumpStep(i) == PumpItem(i) \/ PumpDone(i) \/ PumpReturned(i) \/ PumpFail(i)

\* the data items of a sequence of queue entries
Data(q) == SelectSeq(q, LAMBDA x : x # StopSymbol)

\* C26: pumps never forward after stop. While stopFlag is true no step of a pump
\* broadcasts an item or adds one to any queue; a pump that receives an item
\* from its producer while stopFlag is true drops it and leaves its loop.
C26_PumpsNeverForwardAfterStop ==
  /\ [][\A i \in Inputs : (stopFlag /\ PumpStep(i)) =>
          /\ bcast' = bcast
          /\ \A o \in Outputs : Data(ch'[o].queue) = Data(ch[o].queue)]_vars
  /\ [][\A i \in Inputs : (stopFlag /\ PumpItem(i)) =>
          /\ pos'[i] = pos[i] + 1
          /\ pump'[i] = "returning"
          /\ ch' = ch]_vars

\* C26 witness: after a stop() with an output registered, a pump has received an
\* item from its producer, has not broadcast it, and is leaving its loop.
C26_Witness ==
  \E i \in Inputs :
    /\ hist.stopCalled /\ stopFlag /\ hist.atStop # {}
    /\ pump[i] = "returning" /\ pos[i] > 0
    /\ BcastIndex(<<i, pos[i]>>) = 0

\* C27 (as claimed): enqueue on a closed channel is a no-op. Of an output whose
\* stop handle was called, the mux itself not stopped: the items it has yielded,
\* pulled or still has queued are those broadcast to it before the handle was
\* called; no later broadcast has been added to its queue.
C27_ClosedChannelIgnoresEnqueue ==
  ~stopFlag => \A o \in hist.handled : Data(Received(o)) = SentOpen(o)

\* C28: the stopped flag is monotonic: no step of any kind takes stopFlag from
\* true to false.
C28_StopFlagMonotonic ==
  [][stopFlag => stopFlag']_vars

\* C28 witness: the mux is stopped and, since it was, an input registered, its
\* pump received an item, dropped it, and ended.
C28_Witness ==
  \E i \in Inputs :
    /\ stopFlag /\ pump[i] = "ended"
    /\ pos[i] > 0 /\ BcastIndex(<<i, pos[i]>>) = 0

\* C29: an enqueue that finds a pending waiter resolves it and clears the slot:
\* resolver and promise are set and cleared together, and are set only while
\* the consumer is suspended on its empty queue. An enqueue that finds the slot
\* clear leaves it clear. The resumed consumer takes the front of the queue,
\* the first thing enqueued since it suspended, and leaves the rest queued.
C29_WaiterResolvedOnce ==
  /\ [](\A o \in Outputs :
          /\ ch[o].resolve <=> ch[o].controlPromise
          /\ ch[o].resolve => (gen[o] = "awaitPromise" /\ ch[o].queue = <<>>))
  /\ [][\A o \in Outputs : Len(ch'[o].queue) > Len(ch[o].queue) =>
          /\ ~ch'[o].resolve /\ ~ch'[o].controlPromise
          /\ gen'[o] = gen[o] /\ held'[o] = held[o]
          /\ ch[o].resolve => Len(ch'[o].queue) = 1]_vars
  /\ [][\A o \in Outputs : Wake(o) =>
          /\ Len(ch[o].queue) > 0
          /\ held'[o] = <<ch[o].queue[1]>>
          /\ ch'[o].queue = Tail(ch[o].queue)
          /\ UNCHANGED <<ch[o].resolve, ch[o].controlPromise>>]_vars

\* C29 witness: a consumer suspended on its empty queue was resolved by one
\* enqueue, a second enqueue arrived before it resumed, and the slot is clear.
C29_Witness ==
  \E o \in Outputs :
    /\ gen[o] = "awaitPromise"
    /\ ~ch[o].resolve /\ ~ch[o].controlPromise
    /\ Len(ch[o].queue) = 2

\* C30: at most one outstanding suspended pull per channel. A promise is pending
\* on a channel only while its one consumer is suspended in pullItem on it, and
\* whenever the consumer is in a position to pull again (or has not pulled yet,
\* or is done) no promise is pending, so pullItem creates a promise only when
\* none is pending.
C30_AtMostOneWaiter ==
  \A o \in Outputs :
    /\ ch[o].controlPromise => gen[o] = "awaitPromise"
    /\ gen[o] \in {"none", "start", "yield", "awaitPull", "done"}
         => (~ch[o].controlPromise /\ ~ch[o].resolve)

\* C30 witness: an output whose consumer suspended, was resolved and yielded an
\* item is suspended again, on a second promise, the first being gone.
C30_Witness ==
  \E o \in Outputs :
    /\ gen[o] = "awaitPromise" /\ ch[o].controlPromise /\ ch[o].resolve
    /\ Len(observed[o]) > 0 /\ ch[o].queue = <<>>

\* the multiplexer's own state: stopped flag, live-input count, registry, channels
MuxState == <<stopFlag, inputCount, queues, ch>>

\* the multiplexer's state once a pump's loop has ended normally in the current
\* state (index.ts:65-68): one input less, and stop() if it was the last
MuxAfterLoop ==
  IF inputCount - 1 = 0
    THEN <<TRUE, 0, queues, pushInternal(ch, queues, StopSymbol)>>
    ELSE <<stopFlag, inputCount - 1, queues, ch>>

\* C31 (as claimed): pump terminal states are indistinguishable to the mux: from
\* one and the same state, the multiplexer's state after the pump ends by its
\* producer's failure is the state after it ends by its producer's completion.
C31_PumpEndsIndistinguishable ==
  /\ [][\A i \in Inputs : PumpDone(i) => MuxState' = MuxAfterLoop]_vars
  /\ [][\A i \in Inputs : PumpFail(i) => MuxState' = MuxAfterLoop]_vars

\* C32: a pull never takes from an empty queue. A consumer resolved out of its
\* suspension finds its queue non-empty; what pullItem has handed to outputGen
\* is one queue entry, never undefined; and no output has yielded undefined or
\* the stop marker.
C32_PullNeverFromEmptyQueue ==
  \A o \in Outputs :
    /\ (gen[o] = "awaitPromise" /\ ~ch[o].controlPromise) => Len(ch[o].queue) > 0
    /\ gen[o] = "awaitPull" => (Len(held[o]) = 1 /\ held[o][1] # Undefined)
    /\ \A n \in 1..Len(observed[o]) :
         observed[o][n] # Undefined /\ observed[o][n] # StopSymbol

\* C32 witness: a consumer that has yielded an item and suspended on its empty
\* queue has been resolved and is about to shift the queue, which holds the
\* stop marker.
C32_Witness ==
  \E o \in Outputs :
    /\ gen[o] = "awaitPromise" /\ ~ch[o].controlPromise
    /\ Len(observed[o]) = 1
    /\ ch[o].queue = <<StopSymbol>>

\* the global broadcast sequence: pump forwards and push() calls, in broadcast order
BcastItems == [n \in 1..Len(bcast) |-> bcast[n].item]

\* the len broadcasts that follow the out() call of output o
Window(o, len) == SubSeq(BcastItems, regAt[o] + 1, regAt[o] + len)

\* C33: each output observes a contiguous window of the broadcast stream. What
\* an output has yielded so far, and so what it has yielded when it completes,
\* is the broadcast sequence from the first broadcast after its out() call on,
\* with nothing skipped, duplicated or reordered; the output was registered at
\* each of those broadcasts; and what it has pulled or queued beyond, stop
\* markers apart, continues that same interval.
C33_ContiguousWindow ==
  \A o \in Outputs :
    LET taken == Data(Received(o))
    IN  /\ regAt[o] + Len(taken) <= Len(bcast)
        /\ taken = Window(o, Len(taken))
        /\ observed[o] = Window(o, Len(observed[o]))
        /\ \A n \in (regAt[o] + 1)..(regAt[o] + Len(taken)) : o \in bcast[n].to

\* C33 witness: of two broadcasts, an output created between them has completed
\* having yielded the second alone.
C33_Witness ==
  \E o \in Outputs :
    /\ Len(bcast) = 2 /\ regAt[o] = 1
    /\ gen[o] = "done" /\ o \notin hist.abandoned
    /\ observed[o] = <<bcast[2].item>>

\* the inputs whose pump's loop has ended without an exception
EndedInputs == {i \in Inputs : pump[i] = "ended"}

AnyFailed == \E i \in Inputs : pump[i] = "failed"

C37_WaiterBufferConsistency ==
  \A o \in Outputs :
    /\ ch[o].resolve = ch[o].controlPromise
    /\ ch[o].controlPromise =>
         /\ ch[o].queue = <<>> /\ held[o] = <<>>
         /\ gen[o] = "awaitPromise"

\* C37 witness: with an input running and none failed, an output that has yet
\* to yield anything has its consumer suspended: promise and resolve handle are
\* set and its queue is empty.
C37_Witness ==
  \E o \in queues : \E i \in Inputs :
    /\ pump[i] = "running" /\ ~AnyFailed /\ ~stopFlag
    /\ ch[o].controlPromise /\ ch[o].resolve
    /\ gen[o] = "awaitPromise" /\ ch[o].queue = <<>> /\ observed[o] = <<>>

====
